---- MODULE Spec2Model ----
(***************************************************************************)
(* WikiJury scoring engine (utils/analysis.py) and the loader of app.py,   *)
(* as a state machine over pandas-like tables.                             *)
(*                                                                         *)
(* A cell is a record [k, v, d]:                                           *)
(*   k = "num"  the number v/d (d >= 1, reduced);                          *)
(*   k = "nan"  NaN / None in a numeric or object column;                  *)
(*   k = "str"  a text value (v identifies the text; a username, or text   *)
(*              found where a number or a date was expected);              *)
(*   k = "date" text that pandas.to_datetime parses, v = the instant in    *)
(*              ticks (TicksPerDay ticks make one day);                    *)
(*   k = "dt"   a datetime64 value at tick v;                              *)
(*   k = "nat"  NaT.                                                       *)
(* Floating point numbers are modelled by exact rationals.                 *)
(*                                                                         *)
(* A Series is [index |-> Seq(cell), values |-> Seq(cell)]; a DataFrame is *)
(* [columns |-> set of names, index |-> Seq(cell), col |-> [columns ->     *)
(* Seq(cell)]].  pd.DataFrame() is the frame with no column and no row.    *)
(***************************************************************************)
EXTENDS Integers, Sequences, FiniteSets, TLC

(* ------------------------------ bounds -------------------------------- *)
\* Most rows an input table holds.
MaxRows == 3
\* Ticks per day: enrollment instants are finer than the whole days the
\* bonus is computed in.
TicksPerDay == 2

(* ------------------------------- cells -------------------------------- *)
RECURSIVE GCD(_, _)
GCD(a, b) == IF b = 0 THEN a ELSE GCD(b, a % b)

Abs(n) == IF n < 0 THEN 0 - n ELSE n

Frac(n, d) ==
    LET g == GCD(Abs(n), d) IN [k |-> "num", v |-> n \div g, d |-> d \div g]

Num(n) == [k |-> "num", v |-> n, d |-> 1]
NaN == [k |-> "nan", v |-> 0, d |-> 1]
NaT == [k |-> "nat", v |-> 0, d |-> 1]
Str(i) == [k |-> "str", v |-> i, d |-> 1]
DateStr(t) == [k |-> "date", v |-> t, d |-> 1]
Timestamp(t) == [k |-> "dt", v |-> t, d |-> 1]
\* The outcome of an operation that raises (TypeError, KeyError, ...).
Err == [k |-> "err", v |-> 0, d |-> 1]

IsNum(c) == c.k = "num"
isna(c) == c.k \in {"nan", "nat"}
IsErr(c) == c.k = "err"

\* float arithmetic: NaN propagates, text operands raise TypeError
CAdd(a, b) ==
    IF IsErr(a) \/ IsErr(b) \/ a.k = "str" \/ b.k = "str" THEN Err
    ELSE IF isna(a) \/ isna(b) THEN NaN
    ELSE Frac(a.v * b.d + b.v * a.d, a.d * b.d)

CMul(a, b) ==
    IF IsErr(a) \/ IsErr(b) \/ a.k = "str" \/ b.k = "str" THEN Err
    ELSE IF isna(a) \/ isna(b) THEN NaN
    ELSE Frac(a.v * b.v, a.d * b.d)

\* a >= b on numbers (False when either is NaN, as in IEEE comparisons)
CGeq(a, b) == IsNum(a) /\ IsNum(b) /\ a.v * b.d >= b.v * a.d
CLess(a, b) == IsNum(a) /\ IsNum(b) /\ a.v * b.d < b.v * a.d

\* numpy.round(x, 2): the nearest multiple of 0.01, ties to the even one
Round2(c) ==
    IF ~IsNum(c) THEN c
    ELSE LET s == 100 * c.v
             q == s \div c.d
             r == s % c.d
             up == (2 * r > c.d) \/ (2 * r = c.d /\ q % 2 = 1)
         IN Frac(IF up THEN q + 1 ELSE q, 100)

(* ------------------------- Series and DataFrame ----------------------- *)
RangeIndex(n) == [i \in 1..n |-> Num(i - 1)]

Series(index, values) == [index |-> index, values |-> values]

\* pd.Series(scalar, index=index)
ConstSeries(c, index) == Series(index, [i \in 1..Len(index) |-> c])

EmptyFrame == [columns |-> {}, index |-> <<>>, col |-> <<>>]

NRows(df) == Len(df.index)

\* df[c]
Col(df, c) == Series(df.index, df.col[c])

\* position of label l in an index (0 when absent)
Pos(index, l) ==
    IF \E i \in 1..Len(index) : index[i] = l
    THEN CHOOSE i \in 1..Len(index) :
            index[i] = l /\ \A j \in 1..(i - 1) : index[j] # l
    ELSE 0

\* Series.reindex(index): label alignment, NaN where the label is absent
Reindex(s, index) ==
    [i \in 1..Len(index) |->
        IF Pos(s.index, index[i]) = 0 THEN NaN
        ELSE s.values[Pos(s.index, index[i])]]

\* df[c] = scalar
SetScalar(df, c, x) ==
    [columns |-> df.columns \cup {c},
     index |-> df.index,
     col |-> [n \in df.columns \cup {c} |->
                IF n = c THEN [i \in 1..NRows(df) |-> x] ELSE df.col[n]]]

\* df[c] = series.  A frame that has no row yet takes the index of the
\* series (DataFrame._ensure_valid_index) and its older columns are filled
\* with NaN; otherwise the series is aligned on the frame's index.
SetSeries(df, c, s) ==
    IF NRows(df) = 0 /\ Len(s.index) > 0
    THEN [columns |-> df.columns \cup {c},
          index |-> s.index,
          col |-> [n \in df.columns \cup {c} |->
                     IF n = c THEN s.values
                     ELSE [i \in 1..Len(s.index) |-> NaN]]]
    ELSE [columns |-> df.columns \cup {c},
          index |-> df.index,
          col |-> [n \in df.columns \cup {c} |->
                     IF n = c THEN Reindex(s, df.index) ELSE df.col[n]]]

\* Series.fillna(x)
FillNa(s, x) ==
    Series(s.index, [i \in 1..Len(s.values) |->
                        IF isna(s.values[i]) THEN x ELSE s.values[i]])

AnyErr(seq) == \E i \in 1..Len(seq) : IsErr(seq[i])

(* ------------------------- utils/analysis.py -------------------------- *)
NumCells(s) == {s.values[i] : i \in {j \in 1..Len(s.values) : IsNum(s.values[j])}}

\* Series.min() / Series.max(): NaN is skipped; NaN when nothing is left
SeriesMin(s) ==
    IF NumCells(s) = {} THEN NaN
    ELSE CHOOSE m \in NumCells(s) : \A c \in NumCells(s) : CGeq(c, m)

SeriesMax(s) ==
    IF NumCells(s) = {} THEN NaN
    ELSE CHOOSE m \in NumCells(s) : \A c \in NumCells(s) : CGeq(m, c)

CSub(a, b) == CAdd(a, CMul(b, Num(0 - 1)))

\* a / b for b # 0
CDiv(a, b) ==
    IF IsErr(a) \/ IsErr(b) \/ a.k = "str" \/ b.k = "str" THEN Err
    ELSE IF isna(a) \/ isna(b) THEN NaN
    ELSE IF b.v < 0 THEN Frac(0 - (a.v * b.d), a.d * (0 - b.v))
    ELSE Frac(a.v * b.d, a.d * b.v)

\* the degenerate column mapped to 0 instead of 1
normalize_metric_zero(series) ==
    LET min_val == SeriesMin(series)
        max_val == SeriesMax(series)
    IN IF IsNum(min_val) /\ min_val = max_val
       THEN ConstSeries(Num(0), series.index)
       ELSE Series(series.index,
                   [i \in 1..Len(series.values) |->
                      IF IsNum(min_val)
                      THEN CDiv(CSub(series.values[i], min_val),
                                CSub(max_val, min_val))
                      ELSE NaN])

normalize_metric(series) ==
    LET min_val == SeriesMin(series)
        max_val == SeriesMax(series)
    IN IF IsNum(min_val) /\ min_val = max_val
       THEN ConstSeries(Num(1), series.index)
       ELSE Series(series.index,
                   [i \in 1..Len(series.values) |->
                      IF IsNum(min_val)
                      THEN CDiv(CSub(series.values[i], min_val),
                                CSub(max_val, min_val))
                      ELSE NaN])

\* a conversion that parses text only: an already converted value is lost
to_datetime_text(c) ==
    CASE c.k = "date" -> Timestamp(c.v)
      [] c.k \in {"nan", "nat", "dt"} -> NaT
      [] c.k = "num" -> Timestamp(0)
      [] OTHER -> Err

\* pd.to_datetime on one value
to_datetime(c) ==
    CASE c.k = "date" -> Timestamp(c.v)
      [] c.k = "dt" -> c
      [] c.k \in {"nan", "nat"} -> NaT
      [] c.k = "num" -> Timestamp(0)
      [] OTHER -> Err

Instants(seq) == {seq[i].v : i \in {j \in 1..Len(seq) : seq[j].k = "dt"}}

SetMin(S) == CHOOSE m \in S : \A x \in S : m <= x
SetMax(S) == CHOOSE m \in S : \A x \in S : m >= x

\* Timedelta.days: whole days of a non-negative span of ticks
Days(ticks) == ticks \div TicksPerDay

\* the interpolation with its direction lost: 1 + (0.1 * days / time_range)
BonusFactorLate(days, time_range) ==
    Frac(10 * time_range + days, 10 * time_range)

\* 1 + (0.1 * (1 - days / time_range))
BonusFactor(days, time_range) == Frac(11 * time_range - days, 10 * time_range)

\* calculate_time_bonus(df): the bonus Series, and df as the call leaves it
\* (the converted column is stored back into the caller's frame).
calculate_time_bonus(df) ==
    LET neutral == ConstSeries(Num(1), df.index) IN
    IF "enrollment_timestamp" \notin df.columns
    THEN [df |-> df, bonus |-> neutral]
    ELSE
    LET conv == [i \in 1..NRows(df) |->
                    to_datetime(df.col["enrollment_timestamp"][i])]
    IN IF AnyErr(conv)
       THEN [df |-> df, bonus |-> neutral]
       ELSE
       LET df2 == [df EXCEPT !.col["enrollment_timestamp"] = conv]
           ts == Instants(conv)
           time_range == IF ts = {} THEN 0
                         ELSE Days(SetMax(ts) - SetMin(ts))
       IN IF time_range > 0
          THEN [df |-> df2,
                bonus |-> Series(df.index,
                    [i \in 1..NRows(df) |->
                        IF conv[i].k = "dt"
                        THEN BonusFactor(Days(conv[i].v - SetMin(ts)),
                                         time_range)
                        ELSE NaN])]
          ELSE [df |-> df2, bonus |-> neutral]

\* column_mappings of process_editors_data, in dict order
column_mappings ==
    << <<"revisions_during_project", "total_edits">>,
       <<"mainspace_bytes_added", "bytes_added">>,
       <<"total_articles_created", "articles_created">>,
       <<"total_articles_edited", "articles_edited">>,
       <<"references_added", "references_added">>,
       <<"upload_count", "upload_count">>,
       <<"www.wikidata.org_edits", "www.wikidata.org_edits">> >>

required_columns ==
    << "bytes_added", "articles_created", "articles_edited",
       "references_added", "upload_count", "www.wikidata.org_edits",
       "total_edits" >>

\* for col in required_columns: if col not in metrics.columns: metrics[col] = 0
RECURSIVE EnsureColumns(_, _)
EnsureColumns(metrics, i) ==
    IF i > Len(required_columns) THEN metrics
    ELSE EnsureColumns(
            IF required_columns[i] \in metrics.columns THEN metrics
            ELSE SetScalar(metrics, required_columns[i], Num(0)),
            i + 1)

\* the copy with a missing source column left null instead of 0
RECURSIVE CopyMappedNull(_, _, _)
CopyMappedNull(metrics, df, i) ==
    IF i > Len(column_mappings) THEN metrics
    ELSE LET source == column_mappings[i][1]
             target == column_mappings[i][2]
         IN CopyMappedNull(
              IF source \in df.columns
              THEN SetSeries(metrics, target, FillNa(Col(df, source), Num(0)))
              ELSE SetScalar(metrics, target, NaN),
              df, i + 1)

\* for source, target in column_mappings.items(): copy with fillna(0), or 0
RECURSIVE CopyMapped(_, _, _)
CopyMapped(metrics, df, i) ==
    IF i > Len(column_mappings) THEN metrics
    ELSE LET source == column_mappings[i][1]
             target == column_mappings[i][2]
         IN CopyMapped(
              IF source \in df.columns
              THEN SetSeries(metrics, target, FillNa(Col(df, source), Num(0)))
              ELSE SetScalar(metrics, target, Num(0)),
              df, i + 1)

\* requires "username" \in df.columns (checked by the caller)
process_editors_data(df) ==
    EnsureColumns(
        CopyMapped(SetSeries(EmptyFrame, "username", Col(df, "username")),
                   df, 1),
        1)

\* The columns of the modelled tables whose name ends in _edits,
\* _articles_created or _articles_edited.
WikiMetricColumns ==
    {"total_edits", "www.wikidata.org_edits", "total_articles_created",
     "total_articles_edited"}

general_metrics ==
    << "total_edits", "articles_created", "articles_edited", "bytes_added",
       "references_added", "upload_count" >>

SeqToSet(seq) == {seq[i] : i \in 1..Len(seq)}

process_overview_data(df) ==
    LET kept == (WikiMetricColumns \cup SeqToSet(general_metrics))
                    \cap df.columns
    IN IF kept = {} THEN EmptyFrame
       ELSE [columns |-> kept,
             index |-> df.index,
             col |-> [n \in kept |-> FillNa(Col(df, n), Num(0)).values]]

\* The group keys of df.groupby(by): the distinct non-null values, sorted
GroupKeys(df, by) ==
    LET present == {df.col[by][i] :
                        i \in {j \in 1..NRows(df) : ~isna(df.col[by][j])}}
        before(c) == Cardinality({x \in present : x.v < c.v})
    IN [r \in 1..Cardinality(present) |->
            CHOOSE c \in present : before(c) = r - 1]

GroupRows(df, by, key) == {i \in 1..NRows(df) : df.col[by][i] = key}

\* the sum of the cells values[i], i in rows, in row order; NaN is skipped
RECURSIVE SumCells(_, _, _)
SumCells(values, rows, i) ==
    IF i > Len(values) THEN Num(0)
    ELSE IF i \in rows /\ ~isna(values[i])
         THEN CAdd(values[i], SumCells(values, rows, i + 1))
         ELSE SumCells(values, rows, i + 1)

\* df.groupby(by).size()
GroupSize(df, by) ==
    LET keys == GroupKeys(df, by)
    IN Series(keys, [g \in 1..Len(keys) |->
                        Num(Cardinality(GroupRows(df, by, keys[g])))])

\* df.groupby(by)[c].first(): the first row of each group, no summing
GroupFirst(df, by, c) ==
    LET keys == GroupKeys(df, by)
    IN Series(keys, [g \in 1..Len(keys) |->
                        df.col[c][CHOOSE i \in GroupRows(df, by, keys[g]) :
                                    \A j \in GroupRows(df, by, keys[g]) :
                                        i <= j]])

\* df.groupby(by)[c].sum()
GroupSum(df, by, c) ==
    LET keys == GroupKeys(df, by)
    IN Series(keys, [g \in 1..Len(keys) |->
                        SumCells(df.col[c], GroupRows(df, by, keys[g]), 1)])

\* metrics.loc[metrics['username'].isin(s.index), c] = s : the selected rows
\* take the value s holds at their own row label, NaN when s has no such label
LocAssign(metrics, c, s) ==
    LET aligned == Reindex(s, metrics.index)
    IN [metrics EXCEPT !.col[c] =
          [i \in 1..NRows(metrics) |->
             IF Pos(s.index, metrics.col["username"][i]) # 0
             THEN aligned[i] ELSE metrics.col[c][i]]]

\* required_columns of process_commons_data, in dict order (each default 0)
commons_required_columns ==
    << "upload_count", "bytes_added", "articles_created", "articles_edited",
       "references_added", "www.wikidata.org_edits", "total_edits" >>

\* for col, default_val in required_columns.items(): metrics[col] = default_val
RECURSIVE InitColumns(_, _)
InitColumns(metrics, i) ==
    IF i > Len(commons_required_columns) THEN metrics
    ELSE InitColumns(SetScalar(metrics, commons_required_columns[i], Num(0)),
                     i + 1)

\* requires "username" \in df.columns (checked by the caller)
process_commons_data(df) ==
    LET m0 == InitColumns(
                SetSeries(EmptyFrame, "username", Col(df, "username")), 1)
        m1 == IF "title" \in df.columns
              THEN LocAssign(m0, "upload_count", GroupSize(df, "username"))
              ELSE m0
    IN IF "usage_count" \in df.columns
       THEN LocAssign(m1, "articles_edited",
                      GroupSum(df, "username", "usage_count"))
       ELSE m1

articles_agg ==
    << <<"edit_count", "total_edits">>,
       <<"characters_added", "bytes_added">>,
       <<"references_added", "references_added">>,
       <<"new", "articles_created">> >>

\* [exc, frame]: exc when the aggregation raises (a column of the agg
\* mapping is missing, or a sum meets text)
process_articles_data(df) ==
    LET sources == {articles_agg[i][1] : i \in 1..Len(articles_agg)}
        targets == {articles_agg[i][2] : i \in 1..Len(articles_agg)}
        src(t) == (CHOOSE i \in 1..Len(articles_agg) :
                        articles_agg[i][2] = t)
        keys == GroupKeys(df, "username")
        frame == [columns |-> targets \cup {"username"},
                  index |-> RangeIndex(Len(keys)),
                  col |-> [n \in targets \cup {"username"} |->
                             IF n = "username" THEN keys
                             ELSE GroupSum(df, "username",
                                    articles_agg[src(n)][1]).values]]
    IN IF "username" \notin df.columns
       THEN [exc |-> FALSE, frame |-> EmptyFrame]
       ELSE IF ~(sources \subseteq df.columns)
            THEN [exc |-> TRUE, frame |-> EmptyFrame]
            ELSE IF \E n \in targets : AnyErr(frame.col[n])
                 THEN [exc |-> TRUE, frame |-> EmptyFrame]
                 ELSE [exc |-> FALSE, frame |-> frame]

HighTierBytes == 4000
LowTierBytes == 1500
HighTierPoints == 5
LowTierPoints == 3

\* the tariff with the upper tier starting strictly above HighTierBytes
calculate_article_points_gt(articles_created, bytes_added) ==
    IF IsNum(articles_created) /\ articles_created.v = 0 THEN Num(0)
    ELSE LET bytes_per_article == CDiv(bytes_added, articles_created)
         IN IF IsErr(bytes_per_article) THEN Err
            ELSE IF CLess(Num(HighTierBytes), bytes_per_article)
                 THEN CMul(Num(HighTierPoints), articles_created)
                 ELSE IF CGeq(bytes_per_article, Num(LowTierBytes))
                      THEN CMul(Num(LowTierPoints), articles_created)
                      ELSE Num(0)

\* calculate_article_points on the row (articles_created, bytes_added)
calculate_article_points(articles_created, bytes_added) ==
    IF IsNum(articles_created) /\ articles_created.v = 0 THEN Num(0)
    ELSE LET bytes_per_article == CDiv(bytes_added, articles_created)
         IN IF IsErr(bytes_per_article) THEN Err
            ELSE IF CGeq(bytes_per_article, Num(HighTierBytes))
                 THEN CMul(Num(HighTierPoints), articles_created)
                 ELSE IF CGeq(bytes_per_article, Num(LowTierBytes))
                      THEN CMul(Num(LowTierPoints), articles_created)
                      ELSE Num(0)

WikidataPoints == 3
UploadPoints == 3

\* series * n
Scale(values, n) == [i \in 1..Len(values) |-> CMul(values[i], Num(n))]

\* metrics[c] * per_unit, the fillna(0) left out
CounterPointsNoFill(series, per_unit) == Scale(series.values, per_unit)

\* metrics[c].fillna(0) * per_unit
CounterPoints(series, per_unit) ==
    Scale(FillNa(series, Num(0)).values, per_unit)

\* the sum with its last term left out
PointsSumNoUsage(article_points, wikidata_points, upload_points, usage_points) ==
    CAdd(CAdd(article_points, wikidata_points), upload_points)

\* article_creation_points + wikidata_points + upload_points
\*     + commons_usage_points, for one row
PointsSum(article_points, wikidata_points, upload_points, usage_points) ==
    CAdd(CAdd(CAdd(article_points, wikidata_points), upload_points),
         usage_points)

\* sort_values is called without kind=, so numpy's default 'quicksort' does
\* the sorting, and numpy leaves the order of equal keys to the build: an
\* insertion sort keeps them in place, a vectorised sorting network does not.
ArgsortBuilds == {"insertion", "network"}

VARIABLE argsort     \* which of ArgsortBuilds this installation runs

\* metrics.sort_values('Score global', ascending=False): the row positions
\* in their new order.  Larger scores first, NaN last in their previous
\* order (pandas' nargsort appends them); equal scores in their previous
\* order under the insertion sort, in the opposite order under the network.
SortOrder(values) ==
    LET n == Len(values)
        before(i, j) ==
            \/ CLess(values[j], values[i])
            \/ IsNum(values[i]) /\ ~IsNum(values[j])
            \/ /\ IsNum(values[i]) /\ values[i] = values[j]
               /\ IF argsort = "insertion" THEN i < j ELSE j < i
            \/ i < j /\ ~IsNum(values[i]) /\ ~IsNum(values[j])
        place(i) == 1 + Cardinality({j \in 1..n : before(j, i)})
    IN [r \in 1..n |-> CHOOSE i \in 1..n : place(i) = r]

\* the rows of df in the order perm
Take(df, perm) ==
    [columns |-> df.columns,
     index |-> [r \in 1..Len(perm) |-> df.index[perm[r]]],
     col |-> [n \in df.columns |->
                [r \in 1..Len(perm) |-> df.col[n][perm[r]]]]]

\* metrics[numeric_cols] = metrics[numeric_cols].round(2)
RoundNumeric(df) ==
    [df EXCEPT !.col =
        [n \in df.columns |->
            IF \A i \in 1..NRows(df) : df.col[n][i].k \in {"num", "nan"}
            THEN [i \in 1..NRows(df) |-> Round2(df.col[n][i])]
            ELSE df.col[n]]]

\* What one run of the try block of analyze_contributors produces:
\*   exc      an exception was raised inside the block;
\*   metrics  the value returned when none was;
\*   df       the caller's table as the run leaves it;
\*   applied  calculate_time_bonus was called, bonus is what it returned.
Outcome(exc, metrics, df, applied, bonus) ==
    [exc |-> exc, metrics |-> metrics, df |-> df, applied |-> applied,
     bonus |-> bonus]

NoBonus == Series(<< >>, << >>)

\* lines 351-385: scoring, time bonus, ranking, rounding
ScoreAndRank(m0, df, include_time_bonus) ==
    LET n == NRows(m0)
        article_creation_points ==
            [i \in 1..n |-> calculate_article_points(
                                m0.col["articles_created"][i],
                                m0.col["bytes_added"][i])]
        wikidata_points ==
            CounterPoints(Col(m0, "www.wikidata.org_edits"), WikidataPoints)
        upload_points == CounterPoints(Col(m0, "upload_count"), UploadPoints)
        commons_usage_points ==
            FillNa(Col(m0, "articles_edited"), Num(0)).values
        total == [i \in 1..n |->
                    PointsSum(article_creation_points[i], wikidata_points[i],
                              upload_points[i], commons_usage_points[i])]
        score == FillNa(Series(m0.index, total), Num(0))
        m1 == SetSeries(SetSeries(SetSeries(SetSeries(SetSeries(m0,
                "article_creation_points",
                    Series(m0.index, article_creation_points)),
                "wikidata_points", Series(m0.index, wikidata_points)),
                "upload_points", Series(m0.index, upload_points)),
                "commons_usage_points",
                    Series(m0.index, commons_usage_points)),
                "Score global", score)
        applied == include_time_bonus /\ "enrollment_timestamp" \in df.columns
        tb == IF applied THEN calculate_time_bonus(df)
              ELSE [df |-> df, bonus |-> NoBonus]
        \* metrics['Score global'] *= time_bonus : aligned on the row labels
        m2 == IF applied
              THEN LET aligned == Reindex(tb.bonus, m1.index)
                   IN [m1 EXCEPT !.col["Score global"] =
                        [i \in 1..n |->
                            CMul(m1.col["Score global"][i], aligned[i])]]
              ELSE m1
        m3 == Take(m2, SortOrder(m2.col["Score global"]))
        m4 == SetSeries(m3, "Rang",
                        Series(m3.index, [r \in 1..n |-> Num(r)]))
    IN IF AnyErr(article_creation_points) \/ AnyErr(wikidata_points)
          \/ AnyErr(upload_points) \/ AnyErr(total)
       THEN Outcome(TRUE, EmptyFrame, df, FALSE, NoBonus)
       ELSE Outcome(FALSE, RoundNumeric(m4), tb.df, applied, tb.bonus)

DataTypes == {"editors", "overview", "commons", "articles"}

\* the body of the try block (lines 319-385); weights is never read
AnalyzeBody(df, weights, data_type, include_time_bonus) ==
    IF "username" \notin df.columns /\ data_type # "overview"
    THEN Outcome(FALSE, EmptyFrame, df, FALSE, NoBonus)
    ELSE IF data_type \notin DataTypes
    THEN Outcome(FALSE, EmptyFrame, df, FALSE, NoBonus)
    ELSE
    LET adapted ==
          CASE data_type = "editors" ->
                    [exc |-> FALSE, frame |-> process_editors_data(df)]
            [] data_type = "overview" ->
                    [exc |-> FALSE, frame |-> process_overview_data(df)]
            [] data_type = "commons" ->
                    [exc |-> FALSE, frame |-> process_commons_data(df)]
            [] OTHER -> process_articles_data(df)
    IN IF adapted.exc
       THEN Outcome(TRUE, EmptyFrame, df, FALSE, NoBonus)
       ELSE ScoreAndRank(EnsureColumns(adapted.frame, 1), df,
                         include_time_bonus)

\* the call without its except clause: the exception leaves the function
Propagated(r) ==
    [raised |-> r.exc, caught |-> FALSE,
     metrics |-> IF r.exc THEN EmptyFrame ELSE r.metrics,
     df |-> r.df, applied |-> r.applied, bonus |-> r.bonus]

\* except Exception: ... return pd.DataFrame()
\* [raised, caught, metrics, df, applied, bonus]: caught when the except
\* clause ran, raised when the exception leaves the function instead
Caught(r) ==
    [raised |-> FALSE, caught |-> r.exc,
     metrics |-> IF r.exc THEN EmptyFrame ELSE r.metrics,
     df |-> r.df, applied |-> r.applied, bonus |-> r.bonus]

analyze_contributors(df, weights, data_type, include_time_bonus) ==
    Caught(AnalyzeBody(df, weights, data_type, include_time_bonus))

(* ------------------------------- app.py ------------------------------- *)
\* the text "Unknown"
Unknown == Str(0)

\* df.groupby(by)[c].count(): the non-null cells of c per group
GroupCount(df, by, c) ==
    LET keys == GroupKeys(df, by)
    IN Series(keys, [g \in 1..Len(keys) |->
            Num(Cardinality({i \in GroupRows(df, by, keys[g]) :
                                ~isna(df.col[c][i])}))])

\* required_columns of load_data, in dict order: <<new, old, default>>
\* (old = "" stands for None)
load_required_columns ==
    << <<"bytes_added", "mainspace_bytes_added", Num(0)>>,
       <<"articles_created", "total_articles_created", Num(0)>>,
       <<"articles_edited", "total_articles_edited", Num(0)>>,
       <<"references_added", "references_added", Num(0)>>,
       <<"upload_count", "", Num(0)>>,
       <<"www.wikidata.org_edits", "", Num(0)>>,
       <<"total_edits", "revisions_during_project", Num(0)>>,
       <<"username", "username", Unknown>> >>

RECURSIVE LoadColumns(_, _, _)
LoadColumns(processed_df, df, i) ==
    IF i > Len(load_required_columns) THEN processed_df
    ELSE LET new_col == load_required_columns[i][1]
             old_col == load_required_columns[i][2]
             default_val == load_required_columns[i][3]
         IN LoadColumns(
              IF old_col # "" /\ old_col \in df.columns
              THEN SetSeries(processed_df, new_col,
                             FillNa(Col(df, old_col), default_val))
              ELSE SetScalar(processed_df, new_col, default_val),
              df, i + 1)

\* lines 59-98: the Commons branch of load_data
LoadCommons(df) ==
    IF "username" \notin df.columns \/ "filename" \notin df.columns
    THEN [ok |-> FALSE, df |-> EmptyFrame]
    ELSE IF "usage_count" \notin df.columns
    THEN [ok |-> FALSE, df |-> EmptyFrame]      \* KeyError in agg, caught
    ELSE
    LET keys == GroupKeys(df, "username")
        upload_count == GroupCount(df, "username", "filename").values
        usage_count == GroupSum(df, "username", "usage_count").values
        zeros == [g \in 1..Len(keys) |-> Num(0)]
        cols == {"username", "upload_count", "usage_count", "upload_points",
                 "bytes_added", "articles_created", "articles_edited",
                 "references_added", "www.wikidata.org_edits", "total_edits"}
    IN IF AnyErr(usage_count)
       THEN [ok |-> FALSE, df |-> EmptyFrame]
       ELSE [ok |-> TRUE,
             df |-> [columns |-> cols,
                     index |-> RangeIndex(Len(keys)),
                     col |-> [n \in cols |->
                        CASE n = "username" -> keys
                          [] n \in {"upload_count", "total_edits"} ->
                                upload_count
                          [] n = "upload_points" ->
                                Scale(upload_count, UploadPoints)
                          [] n \in {"usage_count", "articles_edited"} ->
                                usage_count
                          [] OTHER -> zeros]]]

\* load_data once the file is read: [ok, df], ok = FALSE for None
load_data(df, data_type) ==
    IF data_type = "commons" THEN LoadCommons(df)
    ELSE [ok |-> TRUE, df |-> LoadColumns(EmptyFrame, df, 1)]

(* --------------------------- input tables ----------------------------- *)
\* pd.read_csv result: the rows under a default RangeIndex
Table(cols, rows) ==
    [columns |-> cols,
     index |-> RangeIndex(Len(rows)),
     col |-> [c \in cols |-> [i \in 1..Len(rows) |-> rows[i][c]]]]

\* the sequences r of length n with r[i] \in rowsAt[i]
RECURSIVE RowSeqs(_, _)
RowSeqs(n, rowsAt) ==
    IF n = 0 THEN {<< >>}
    ELSE {Append(r, x) : r \in RowSeqs(n - 1, rowsAt), x \in rowsAt[n]}

\* the tables of 1..maxn rows over cols, row i drawn from rowsAt[i]
Tables(cols, rowsAt, maxn) ==
    UNION {{Table(cols, r) : r \in RowSeqs(n, rowsAt)} : n \in 1..maxn}

Users == {Str(1), Str(2)}
\* text where a number or a date is expected
Text == Str(0 - 1)

ExportCols ==
    {"username", "revisions_during_project", "mainspace_bytes_added",
     "total_articles_created", "total_articles_edited", "references_added",
     "upload_count", "www.wikidata.org_edits"}

\* a row of a contributors export (the column names of the dashboard export)
ExportRow(u, created, bytes, edited, uploads, wikidata) ==
    "username" :> u @@ "revisions_during_project" :> Num(7)
    @@ "mainspace_bytes_added" :> bytes
    @@ "total_articles_created" :> created
    @@ "total_articles_edited" :> edited @@ "references_added" :> Num(1)
    @@ "upload_count" :> uploads @@ "www.wikidata.org_edits" :> wikidata

CreatedVals == {Num(0), Num(1), Num(2)}
BytesVals == {Num(1000), Num(3000), Num(8000), Num(9000), Text}

\* article tiers: created and bytes vary, one contributor per row
TariffTables ==
    Tables(ExportCols,
           [i \in 1..MaxRows |->
              {ExportRow(Str(i), c, b, Num(1), Num(0), Num(0)) :
                    c \in CreatedVals, b \in BytesVals}],
           MaxRows - 2)

\* counters, some of them null
CounterTables ==
    Tables(ExportCols,
           [i \in 1..MaxRows |->
              {ExportRow(Str(i), Num(1), Num(2000), e, u, w) :
                    e \in {Num(1), NaN}, u \in {Num(4), NaN},
                    w \in {Num(2), NaN}}],
           MaxRows - 2)

\* the same export without its upload_count column
NoUploadTables ==
    Tables(ExportCols \ {"upload_count"},
           [i \in 1..MaxRows |->
              {ExportRow(Str(i), Num(1), Num(2000), e, Num(0), Num(2)) :
                    e \in {Num(1), NaN}}],
           MaxRows - 1)

\* repeated usernames and equal scores
RepeatTables ==
    Tables(ExportCols,
           [i \in 1..MaxRows |->
              {ExportRow(u, Num(0), Num(0), Num(0), n, Num(0)) :
                    u \in Users, n \in {Num(1), Num(2)}}],
           MaxRows - 1)

\* enrollment instants that parse: ticks 0 and 1 are the same day
Enrollments ==
    {DateStr(0), DateStr(1), DateStr(TicksPerDay), DateStr(2 * TicksPerDay + 1)}

\* enrollment cells of an export with gaps: dates and missing ones
GappyEnrollments == {DateStr(0), DateStr(TicksPerDay), NaN}

\* enrollment cells of an export with cells that are not dates
TextEnrollments == {DateStr(0), Text}

\* the editors exports of up to maxn rows whose enrollment_timestamp cells
\* are drawn from cells
EnrolledTables(cells, maxn) ==
    Tables(ExportCols \cup {"enrollment_timestamp"},
           [i \in 1..MaxRows |->
              {ExportRow(Str(i), Num(0), Num(0), Num(0), Num(1 + (i % 2)),
                         Num(0))
                 @@ "enrollment_timestamp" :> t : t \in cells}],
           maxn)

TimedTables ==
    EnrolledTables(Enrollments, MaxRows)
    \cup EnrolledTables(GappyEnrollments, MaxRows)
    \cup EnrolledTables(TextEnrollments, MaxRows - 1)

\* df.rename(columns=name)
Rename(df, name) ==
    [columns |-> {name[c] : c \in df.columns},
     index |-> df.index,
     col |-> [n \in {name[c] : c \in df.columns} |->
                df.col[CHOOSE c \in df.columns : name[c] = n]]]

\* the canonical English key of each export column
CanonicalName ==
    [c \in ExportCols |->
        CASE c = "revisions_during_project" -> "total_edits"
          [] c = "mainspace_bytes_added" -> "bytes_added"
          [] c = "total_articles_created" -> "articles_created"
          [] c = "total_articles_edited" -> "articles_edited"
          [] OTHER -> c]

\* the French label of each export column (validate_editors_data,
\* validate_overview_data), the identity column under the label user
FrenchName(user) ==
    [c \in ExportCols |->
        CASE c = "username" -> user
          [] c = "revisions_during_project" -> "Total modifications"
          [] c = "mainspace_bytes_added" -> "Octets ajoutés"
          [] c = "total_articles_created" -> "Articles créés"
          [] c = "total_articles_edited" -> "Articles modifiés"
          [] c = "references_added" -> "Références ajoutées"
          [] c = "upload_count" -> "Fichiers téléversés"
          [] OTHER -> "Éditions Wikidata"]

FrenchUserLabels == {"Utilisateur", "Nom d'utilisateur"}

\* the exports that are also supplied under the other accepted names
NamingBase ==
    Tables(ExportCols,
           [i \in 1..MaxRows |->
              {ExportRow(Str(i), c, b, Num(1), Num(0), Num(0)) :
                    c \in {Num(0), Num(2)}, b \in {Num(3000), Num(9000)}}],
           MaxRows - 1)

\* the shorter ones of them, as supplied under the other names
Renamed == {t \in NamingBase : NRows(t) <= MaxRows - 2}

CanonicalTables == {Rename(t, CanonicalName) : t \in Renamed}

FrenchTables ==
    {Rename(t, FrenchName(u)) : t \in Renamed, u \in FrenchUserLabels}

\* Commons upload logs: one row per uploaded file
LogRow(i, u, usage) ==
    "username" :> u @@ "filename" :> Str(10 + i) @@ "title" :> Str(10 + i)
    @@ "usage_count" :> usage

CommonsLogs ==
    UNION {Tables({"username", "filename"} \cup extra,
                  [i \in 1..MaxRows |->
                     {LogRow(i, uu[1], uu[2]) :
                        uu \in IF "usage_count" \in extra
                               THEN {<<Str(1), Num(1)>>, <<Str(1), NaN>>,
                                     <<Str(2), Num(1)>>}
                               ELSE Users \X {Num(0)}}],
                  IF "usage_count" \in extra THEN MaxRows - 1
                  ELSE MaxRows) : extra \in SUBSET {"title", "usage_count"}}

\* per-article statistics: one row per (article, contributor)
ArticlesTables ==
    Tables({"username", "edit_count", "characters_added", "references_added",
            "new"},
           [i \in 1..MaxRows |->
              {"username" :> r[1] @@ "edit_count" :> Num(2)
               @@ "characters_added" :> r[3] @@ "references_added" :> Num(1)
               @@ "new" :> r[2] :
                 r \in {<<Str(1), Num(0), Num(1000)>>,
                        <<Str(1), Num(1), Num(4000)>>,
                        <<Str(2), Num(1), Num(4000)>>}}],
           MaxRows)

\* per-article statistics that also carry each contributor's enrollment
TimedArticles ==
    Tables({"username", "edit_count", "characters_added", "references_added",
            "new", "enrollment_timestamp"},
           [i \in 1..MaxRows |->
              {"username" :> u @@ "edit_count" :> Num(2)
               @@ "characters_added" :> Num(4000)
               @@ "references_added" :> Num(1) @@ "new" :> Num(1)
               @@ "enrollment_timestamp" :> t :
                 u \in Users, t \in {DateStr(0), DateStr(TicksPerDay)}}],
           MaxRows - 1)

\* upload logs that also carry each uploader's enrollment
TimedLogs ==
    Tables({"username", "filename", "title", "enrollment_timestamp"},
           [i \in 1..MaxRows |->
              {"username" :> u @@ "filename" :> Str(10 + i)
               @@ "title" :> Str(10 + i) @@ "enrollment_timestamp" :> t :
                 u \in Users, t \in {DateStr(0), DateStr(TicksPerDay)}}],
           MaxRows - 1)

\* campaign overviews: aggregate rows without a username
OverviewTables ==
    Tables({"editors", "total_edits", "articles_created", "bytes_added",
            "upload_count"},
           [i \in 1..MaxRows |->
              {"editors" :> Num(3) @@ "total_edits" :> Num(7)
               @@ "articles_created" :> c @@ "bytes_added" :> Num(9000)
               @@ "upload_count" :> u :
                 c \in {Num(0), Num(2)}, u \in {Num(4), NaN}}],
           1)
    \cup Tables({"editors"}, [i \in 1..MaxRows |-> {"editors" :> Num(3)}], 1)

InputTables ==
    TariffTables \cup NamingBase \cup CounterTables \cup NoUploadTables \cup RepeatTables
    \cup TimedTables \cup CanonicalTables \cup FrenchTables \cup CommonsLogs
    \cup ArticlesTables \cup OverviewTables \cup TimedArticles \cup TimedLogs

(* ----------------------------- the calls ------------------------------ *)
\* the weights mappings a caller passes (None, or criterion -> weight)
NoWeights == << >>
WeightsArgs ==
    {NoWeights, "upload_count" :> 2 @@ "articles_edited" :> 1}

DataTypeArgs == DataTypes \cup {"unknown"}

NoCall == [data_type |-> "", weights |-> NoWeights,
           include_time_bonus |-> FALSE]

VARIABLES
    uploaded_file,   \* the table read from the uploaded file
    df,              \* the caller's table object, handed to the engine
    via,             \* "none", "api" (direct call), "main" (app.main),
                     \* "rejected" (load_data returned None)
    args,            \* the arguments of the last engine call
    input,           \* df as it was when the last call started
    metrics,         \* the table the last call returned
    raised,          \* the last call ended by raising
    caught,          \* the last call ran its except clause
    time_bonus,      \* [applied, bonus] of the last call
    previous,        \* what the call before the last returned, <<m>> or <<>>
    series,          \* the column handed to normalize_metric
    normalized       \* what normalize_metric returned for it

vars == <<argsort, uploaded_file, df, via, args, input, metrics, raised,
          caught, time_bonus, previous, series, normalized>>

Init ==
    /\ argsort \in ArgsortBuilds
    /\ uploaded_file \in InputTables
    /\ df = uploaded_file
    /\ via = "none"
    /\ args = NoCall
    /\ input = EmptyFrame
    /\ metrics = EmptyFrame
    /\ raised = FALSE
    /\ caught = FALSE
    /\ time_bonus = [applied |-> FALSE, bonus |-> NoBonus]
    /\ previous = << >>
    /\ series = NoBonus
    /\ normalized = NoBonus

\* one call analyze_contributors(df, weights, data_type, include_time_bonus)
Call(table, a, prev) ==
    \E r \in {analyze_contributors(table, a.weights, a.data_type,
                                    a.include_time_bonus)} :
       /\ df' = r.df
       /\ args' = a
       /\ input' = table
       /\ metrics' = r.metrics
       /\ raised' = r.raised
       /\ caught' = r.caught
       /\ time_bonus' = [applied |-> r.applied, bonus |-> r.bonus]
       /\ previous' = prev
       /\ UNCHANGED <<argsort, series, normalized>>

\* a caller runs the engine on the table it read
Analyze ==
    /\ via = "none"
    /\ \E data_type \in DataTypeArgs, weights \in WeightsArgs,
          include_time_bonus \in BOOLEAN :
            Call(df, [data_type |-> data_type, weights |-> weights,
                      include_time_bonus |-> include_time_bonus], << >>)
    /\ via' = "api"
    /\ UNCHANGED uploaded_file

\* the caller runs the engine again, same table object and configuration
Reanalyze ==
    /\ via = "api"
    /\ Call(df, args, <<metrics>>)
    /\ UNCHANGED <<via, uploaded_file>>

\* app.main with a file uploaded: load_data, then the engine with its
\* default weights and time bonus
Main ==
    /\ via = "none"
    /\ \E data_type \in DataTypes :
         \E loaded \in {load_data(uploaded_file, data_type)} :
            IF loaded.ok
            THEN /\ Call(loaded.df,
                         [data_type |-> data_type, weights |-> NoWeights,
                          include_time_bonus |-> TRUE], << >>)
                 /\ via' = "main"
            ELSE /\ via' = "rejected"
                 /\ UNCHANGED <<df, args, input, metrics, raised, caught,
                                time_bonus, previous, argsort, series,
                                normalized>>
    /\ UNCHANGED uploaded_file

Next == Analyze \/ Reanalyze \/ Main

Spec == Init /\ [][Next]_vars

(* ------------------- normalize_metric on its own ---------------------- *)
\* the cells of a metric column
MetricCells == {Num(0), Num(1), Num(3), NaN}

\* the metric columns of 1..MaxRows rows
MetricColumns ==
    UNION {{Series(RangeIndex(n), v) : v \in [1..n -> MetricCells]} :
              n \in 1..MaxRows}

InitNormalize ==
    /\ argsort = "insertion"
    /\ uploaded_file = EmptyFrame
    /\ df = EmptyFrame
    /\ via = "none"
    /\ args = NoCall
    /\ input = EmptyFrame
    /\ metrics = EmptyFrame
    /\ raised = FALSE
    /\ caught = FALSE
    /\ time_bonus = [applied |-> FALSE, bonus |-> NoBonus]
    /\ previous = << >>
    /\ series \in MetricColumns
    /\ normalized = NoBonus

\* one call normalize_metric(series)
Normalize ==
    /\ via = "none"
    /\ via' = "normalized"
    /\ normalized' = normalize_metric(series)
    /\ UNCHANGED <<argsort, uploaded_file, df, args, input, metrics, raised,
                   caught, time_bonus, previous, series>>

NextNormalize == Normalize

SpecNormalize == InitNormalize /\ [][NextNormalize]_vars

(* ---------------------------- properties ------------------------------ *)
\* the engine has been called and has returned or raised
Called == via \in {"api", "main"}

Rows == 1..NRows(metrics)
Score(i) == metrics.col["Score global"][i]
Rang(i) == metrics.col["Rang"][i]

\* a null operand counted as 0
Zero(c) == IF isna(c) THEN Num(0) ELSE c

\* the un-bonused sum of the four point columns of output row i
SumOfPoints(i) ==
    CAdd(CAdd(CAdd(Zero(metrics.col["article_creation_points"][i]),
                   Zero(metrics.col["wikidata_points"][i])),
              Zero(metrics.col["upload_points"][i])),
         Zero(metrics.col["commons_usage_points"][i]))

\* C1: in every non-empty result of N rows the rank column holds each of
\* 1..N exactly once, and of any two rows the one with the smaller rank has
\* a score greater than or equal to the other's.
C1_RankMatchesScore ==
    (Called /\ NRows(metrics) > 0) =>
        /\ \A r \in Rows : \E i \in Rows : Rang(i) = Num(r)
        /\ \A i, j \in Rows : i # j => Rang(i) # Rang(j)
        /\ \A i, j \in Rows :
              CLess(Rang(i), Rang(j)) => CGeq(Score(i), Score(j))

\* C2: no call raises; a call in which adapting or scoring raised returns
\* the empty table.
C2_NeverRaises ==
    Called =>
        /\ raised = FALSE
        /\ caught => metrics = EmptyFrame

C2_Witness ==
    /\ Called
    /\ caught
    /\ metrics = EmptyFrame
    /\ ~raised

\* the article points the tariff awards for whole counters >= 0
TariffPoints(articles_created, bytes_added) ==
    IF articles_created = 0 THEN 0
    ELSE IF bytes_added >= 4000 * articles_created
         THEN 5 * articles_created
         ELSE IF bytes_added >= 1500 * articles_created
              THEN 3 * articles_created
              ELSE 0

Canonical(c) == IsNum(c) /\ c.d = 1 /\ c.v >= 0

\* C3: for every canonical row article_creation_points is 0 when
\* articles_created = 0, else 5 * articles_created when bytes_added /
\* articles_created >= 4000, 3 * articles_created when it is in
\* [1500, 4000), 0 otherwise; it is never negative.
C3_ArticleTariff ==
    Called =>
        \A i \in Rows :
            LET ac == metrics.col["articles_created"][i]
                b == metrics.col["bytes_added"][i]
                p == metrics.col["article_creation_points"][i]
            IN (Canonical(ac) /\ Canonical(b)) =>
                    /\ p = Num(TariffPoints(ac.v, b.v))
                    /\ CGeq(p, Num(0))

RowWith(ac, b, p) ==
    \E i \in Rows :
        /\ metrics.col["articles_created"][i] = Num(ac)
        /\ metrics.col["bytes_added"][i] = Num(b)
        /\ metrics.col["article_creation_points"][i] = Num(p)

C3_Witness ==
    /\ Called
    /\ RowWith(2, 9000, 10)
    /\ RowWith(2, 3000, 6)

\* C4: when no time bonus is applied, every output row's score is the sum
\* of its four point columns, a null operand counted as 0, and is not null.
C4_ScoreIsSum ==
    (Called /\ ~time_bonus.applied) =>
        \A i \in Rows : IsNum(Score(i)) /\ Score(i) = SumOfPoints(i)

C4_Witness ==
    /\ Called
    /\ ~time_bonus.applied
    /\ \E i \in Rows :
          /\ CLess(Num(0), metrics.col["article_creation_points"][i])
          /\ CLess(Num(0), metrics.col["wikidata_points"][i])
          /\ CLess(Num(0), metrics.col["upload_points"][i])
          /\ CLess(Num(0), metrics.col["commons_usage_points"][i])
          /\ Score(i) = SumOfPoints(i)

\* n times a counter, 0 for a null counter
Times(n, c) == IF isna(c) THEN Num(0) ELSE CMul(Num(n), c)

Usernames(t) == {t.col["username"][i] : i \in 1..NRows(t)}
RowsOf(t, u) == {i \in 1..NRows(t) : t.col["username"][i] = u}

\* the main path refuses a file only in load_data's Commons branch
CommonsRun ==
    \/ via = "rejected"
    \/ Called /\ args.data_type = "commons"

\* C6: for a Commons upload log without usage_count, called on the raw log
\* or on what load_data makes of it, the result has exactly one row per
\* distinct username, whose upload_count is the number of log rows of that
\* user and whose score is 3 * upload_count.
C6_CommonsLog ==
    (/\ "filename" \in uploaded_file.columns
     /\ "usage_count" \notin uploaded_file.columns
     /\ CommonsRun) =>
        /\ via # "rejected"
        /\ \A u \in Usernames(uploaded_file) :
              /\ Cardinality({i \in Rows : metrics.col["username"][i] = u}) = 1
              /\ \A i \in Rows :
                    metrics.col["username"][i] = u =>
                      /\ metrics.col["upload_count"][i]
                            = Num(Cardinality(RowsOf(uploaded_file, u)))
                      /\ Score(i)
                            = Num(3 * Cardinality(RowsOf(uploaded_file, u)))

CanonicalNamed(t) == {"username", "bytes_added"} \subseteq t.columns
FrenchNamed(t) == "Octets ajoutés" \in t.columns

\* the export a table of CanonicalTables or FrenchTables was renamed from
ExportOf(t) ==
    CHOOSE b \in NamingBase :
        \/ t = Rename(b, CanonicalName)
        \/ \E u \in FrenchUserLabels : t = Rename(b, FrenchName(u))

\* C7: an editors table gives the same result whether its columns carry the
\* export aliases, the canonical English keys or the French labels; and the
\* canonical table load_data builds keeps its bytes_added, articles_created
\* and total_edits when analyze_contributors(data_type='editors') adapts it.
C7_NamesInterchangeable ==
    /\ (/\ via = "api"
        /\ args.data_type = "editors"
        /\ CanonicalNamed(uploaded_file) \/ FrenchNamed(uploaded_file)) =>
            metrics = analyze_contributors(ExportOf(uploaded_file),
                            args.weights, "editors",
                            args.include_time_bonus).metrics
    /\ (via = "main" /\ args.data_type = "editors") =>
            \A i \in 1..NRows(input) :
                \E j \in Rows :
                    /\ metrics.index[j] = input.index[i]
                    /\ \A c \in {"bytes_added", "articles_created",
                                 "total_edits"} :
                            metrics.col[c][j] = input.col[c][i]

\* the weighted-mode score of username u: the per-username sums of each
\* weighted criterion, min-max normalized, times the weights
WeightedScore(u, weights) ==
    LET scaled(c) == normalize_metric(GroupSum(metrics, "username", c))
        term(c) == CMul(Num(weights[c]),
                        scaled(c).values[Pos(scaled(c).index, u)])
        RECURSIVE sum(_)
        sum(S) == IF S = {} THEN Num(0)
                  ELSE LET c == CHOOSE x \in S : TRUE
                       IN CAdd(term(c), sum(S \ {c}))
    IN sum(DOMAIN weights)

\* C8: when the caller supplies weights, every row's score is the sum over
\* the supplied weight keys c of weight[c] * normalized[c].
C8_WeightedMode ==
    (/\ Called
     /\ DOMAIN args.weights # {}
     /\ "username" \in metrics.columns) =>
        \A i \in Rows :
            Score(i) = Round2(WeightedScore(metrics.col["username"][i],
                                            args.weights))

\* the enrollment instants of the last call's input
Enrolled(i) == input.col["enrollment_timestamp"][i]
AllValid == \A i \in 1..NRows(input) : Enrolled(i).k \in {"date", "dt"}
Earliest == SetMin({Enrolled(i).v : i \in 1..NRows(input)})
Latest == SetMax({Enrolled(i).v : i \in 1..NRows(input)})
range_days == (Latest - Earliest) \div TicksPerDay
Multiplier(i) == time_bonus.bonus.values[i]

\* C9: when the time bonus is applied (every enrollment instant is a valid
\* date) and range_days > 0, the multiplier of every row is
\* 1 + 0.1 * (1 - (timestamp - min) in days / range_days): within
\* [1.0, 1.1], 1.1 for the earliest and 1.0 for the latest contributor, and
\* no score is decreased.
C9_TimeBonus ==
    (Called /\ time_bonus.applied /\ AllValid /\ range_days > 0) =>
        /\ \A i \in 1..NRows(input) :
              LET days == (Enrolled(i).v - Earliest) \div TicksPerDay
              IN /\ IsNum(Multiplier(i))
                 /\ Multiplier(i).v * 10 * range_days
                        = (10 * range_days + (range_days - days))
                            * Multiplier(i).d
                 /\ CGeq(Multiplier(i), Num(1))
                 /\ CGeq(Frac(11, 10), Multiplier(i))
                 /\ Enrolled(i).v = Earliest => Multiplier(i) = Frac(11, 10)
                 /\ Enrolled(i).v = Latest => Multiplier(i) = Num(1)
        /\ \A j \in Rows : CGeq(Score(j), SumOfPoints(j))

C9_Witness ==
    /\ Called /\ time_bonus.applied /\ AllValid /\ range_days > 0
    /\ \E i, j, l \in 1..NRows(input) :
          /\ Multiplier(i) = Frac(11, 10)
          /\ Multiplier(j) = Frac(21, 20)
          /\ Multiplier(l) = Num(1)
    /\ \E j \in Rows : CLess(SumOfPoints(j), Score(j))

\* C10: when the enrollment instants are degenerate (range_days = 0) or one
\* of them is missing or unparseable, the multiplier is 1.0 for every row,
\* every score is its un-bonused sum of points (never null) and the ranked
\* table is returned, not the empty one.
C10_BonusSkipped ==
    (/\ Called
     /\ time_bonus.applied
     /\ ~AllValid \/ range_days = 0) =>
        /\ \A i \in 1..NRows(input) : Multiplier(i) = Num(1)
        /\ ~caught
        /\ args.data_type = "editors" => NRows(metrics) = NRows(input)
        /\ \A j \in Rows : IsNum(Score(j)) /\ Score(j) = SumOfPoints(j)

\* C11: an editors input that has a username column but no upload_count
\* column is scored without raising and without the empty table: one output
\* row per input row, upload_count 0 and upload_points 0 in every row.
C11_MissingColumn ==
    (/\ Called
     /\ args.data_type = "editors"
     /\ "username" \in uploaded_file.columns
     /\ "upload_count" \notin uploaded_file.columns) =>
        /\ ~raised /\ ~caught
        /\ NRows(metrics) = NRows(uploaded_file)
        /\ \A i \in Rows :
              /\ metrics.col["upload_count"][i] = Num(0)
              /\ metrics.col["upload_points"][i] = Num(0)

C11_Witness ==
    /\ via = "api"
    /\ args.data_type = "editors"
    /\ "upload_count" \notin uploaded_file.columns
    /\ "www.wikidata.org_edits" \in uploaded_file.columns
    /\ NRows(metrics) = 2
    /\ \A i \in Rows :
          /\ metrics.col["upload_count"][i] = Num(0)
          /\ metrics.col["upload_points"][i] = Num(0)
          /\ CLess(Num(0), Score(i))

\* C12: in every non-empty result of a per-user data_type no two rows carry
\* the same username.
C12_UniqueUsernames ==
    (/\ Called
     /\ args.data_type \in {"editors", "commons", "articles"}
     /\ NRows(metrics) > 0) =>
        \A i, j \in Rows :
            i # j => metrics.col["username"][i] # metrics.col["username"][j]

\* the table names its contributors: username or a French label of it
HasIdentity(t) ==
    "username" \in t.columns \/ FrenchUserLabels \cap t.columns # {}

\* C13: a call on a table with neither a username column nor an alias of it
\* ends with an error surfaced to the caller unless data_type is overview;
\* with overview the missing username is no error.
C13_SchemaError ==
    (Called /\ ~HasIdentity(uploaded_file)) =>
        IF args.data_type # "overview"
        THEN raised
        ELSE ~raised /\ ~caught

\* C14: a second call on the same table object with the same configuration
\* returns what the first call returned.
C14_Idempotent ==
    previous # << >> => metrics = previous[1]

C14_Witness ==
    /\ previous # << >>
    /\ time_bonus.applied /\ AllValid /\ range_days > 0
    /\ df # uploaded_file
    /\ NRows(metrics) > 1
    /\ \E j \in Rows : CLess(SumOfPoints(j), Score(j))
    /\ metrics = previous[1]

\* C15: after a call the caller's table holds the values and types it held
\* when the call started.
C15_InputReadOnly ==
    Called => df = input

\* the numbers of the column handed to normalize_metric
Numbers == {series.values[i].v :
                i \in {j \in 1..Len(series.values) : IsNum(series.values[j])}}

\* C16: normalize_metric maps every number x of a column to
\* (x - min) / (max - min), a value of [0, 1] that is 0 for the minimum and
\* 1 for the maximum; when the numbers of the column are all equal (a
\* single row included) every output is exactly 1.
C16_Normalize ==
    (via = "normalized" /\ Numbers # {}) =>
        \E mn, mx \in Numbers :
            /\ \A x \in Numbers : mn <= x /\ x <= mx
            /\ Len(normalized.values) = Len(series.values)
            /\ IF mn = mx
               THEN \A i \in 1..Len(series.values) :
                        normalized.values[i] = Num(1)
               ELSE \A i \in 1..Len(series.values) :
                        IsNum(series.values[i]) =>
                            LET x == series.values[i].v
                                y == normalized.values[i]
                            IN /\ IsNum(y)
                               /\ y.v * (mx - mn) = (x - mn) * y.d
                               /\ CGeq(y, Num(0)) /\ CGeq(Num(1), y)
                               /\ x = mn => y = Num(0)
                               /\ x = mx => y = Num(1)

C16_Witness ==
    /\ via = "normalized"
    /\ series.values = <<Num(1), Num(0), Num(3)>>
    /\ normalized.values = <<Frac(1, 3), Num(0), Num(1)>>

\* C17: of two output rows with equal scores, the one that came first in
\* the adapted table (the smaller row label) has the smaller rank.
C17_StableRanking ==
    Called =>
        \A i, j \in Rows :
            (/\ IsNum(Score(i)) /\ Score(i) = Score(j)
             /\ metrics.index[i].v < metrics.index[j].v)
                => CLess(Rang(i), Rang(j))

\* the sum of column c over the rows of username u in table t
RowSum(t, c, u) ==
    LET RECURSIVE sum(_)
        sum(S) == IF S = {} THEN 0
                  ELSE LET i == CHOOSE x \in S : TRUE
                       IN t.col[c][i].v + sum(S \ {i})
    IN sum(RowsOf(t, u))

ArticlesColumns ==
    {"username", "edit_count", "characters_added", "references_added", "new"}

\* C18: for an articles table the result has exactly one row per distinct
\* username, holding the sums of that user's edit_count (total_edits),
\* characters_added (bytes_added), references_added and new
\* (articles_created), and 0 for articles_edited, upload_count and the
\* Wikidata edits.
C18_ArticlesAdapter ==
    (/\ Called
     /\ args.data_type = "articles"
     /\ ArticlesColumns \subseteq input.columns) =>
        /\ ~caught
        /\ NRows(metrics) = Cardinality(Usernames(input))
        /\ \A u \in Usernames(input) :
              \E j \in Rows :
                 /\ metrics.col["username"][j] = u
                 /\ metrics.col["total_edits"][j]
                        = Num(RowSum(input, "edit_count", u))
                 /\ metrics.col["bytes_added"][j]
                        = Num(RowSum(input, "characters_added", u))
                 /\ metrics.col["references_added"][j]
                        = Num(RowSum(input, "references_added", u))
                 /\ metrics.col["articles_created"][j]
                        = Num(RowSum(input, "new", u))
                 /\ metrics.col["articles_edited"][j] = Num(0)
                 /\ metrics.col["upload_count"][j] = Num(0)
                 /\ metrics.col["www.wikidata.org_edits"][j] = Num(0)

C18_Witness ==
    /\ Called
    /\ args.data_type = "articles"
    /\ NRows(input) = 3
    /\ NRows(metrics) = 2
    /\ \E j \in Rows :
          /\ metrics.col["total_edits"][j] = Num(4)
          /\ metrics.col["bytes_added"][j] = Num(5000)
          /\ metrics.col["articles_created"][j] = Num(1)
          /\ metrics.col["upload_count"][j] = Num(0)

\* every contributor of the input has one enrollment instant
OneEnrollmentEach ==
    \A i, j \in 1..NRows(input) :
        input.col["username"][i] = input.col["username"][j]
            => Enrolled(i).v = Enrolled(j).v

\* C19: whenever the time bonus is applied, the score of every output row is
\* its sum of points times the multiplier computed from the enrollment
\* instant of that row's own contributor, and is not null.
C19_BonusAlignment ==
    (/\ Called
     /\ time_bonus.applied
     /\ args.data_type \in {"editors", "commons", "articles"}
     /\ AllValid
     /\ OneEnrollmentEach) =>
        \A j \in Rows :
            /\ IsNum(Score(j))
            /\ \A i \in 1..NRows(input) :
                  input.col["username"][i] = metrics.col["username"][j]
                     => Score(j) = Round2(CMul(SumOfPoints(j), Multiplier(i)))

====
